---- MODULE Spec2Model ----
(***************************************************************************)
(* Model of src/bot.py: the Coinglass liquidation heatmap bot.             *)
(*                                                                         *)
(* main() runs one send_Monthly_heatmap() synchronously, then starts the   *)
(* telebot polling thread, then loops over schedule.run_pending().  The    *)
(* scheduled delivery therefore always runs on the main thread; /heatmap   *)
(* commands are handled by handle_manual_heatmap on telebot's worker       *)
(* threads.  Every third-party call (selenium, requests, telebot, the file *)
(* system) is an environment step that either succeeds or raises.          *)
(***************************************************************************)
EXTENDS Integers, Sequences, FiniteSets, TLC

\* Number of date changes the model follows (the date is part of file names).
MaxDay == 1

None == "None"
Unset == "unset"

\* The thread running main(), and the thread on which bot = TeleBot(TOKEN)
\* runs the message handlers of the commands it receives.
Main == "main"
Workers == {"worker"}
Threads == {Main} \cup Workers

\* Text following "/heatmap" in a received command: none, or a timeframe.
Args == {"", "2 day"}

\* Outcomes of requests.get(...) in get_bitcoin_price.
Responses == {"network_error", "http_500", "missing_field", "zero", "ok"}

VARIABLES
    main_pc,        \* position of main(): "m303", "m307", "m310"
    polling,        \* the bot.polling thread has been started
    due,            \* the daily job is pending for schedule.run_pending()
    day,            \* value of datetime.now().strftime('%Y%m%d')
    fs,             \* names of the image files on disk that capture returned
    pc,             \* position of the request running on each thread
    arg,            \* timeframe words of the command being handled
    driver,         \* the local 'driver' of capture_coinglass_heatmap
    inner_e,        \* the main capture sequence raised (inner except entered)
    heatmap_file,   \* the local 'heatmap_file' of the handler
    btc_price,      \* the local 'btc_price' of the handler
    out,            \* messages delivered to the destination, in order
    exc,            \* the exception caught by the handler's except clause
    escaped         \* an exception propagated out of the handler

vars == <<main_pc, polling, due, day, fs, pc, arg, driver, inner_e,
          heatmap_file, btc_price, out, exc, escaped>>

----------------------------------------------------------------------------
\* Pure helpers

\* f"btc_liquidation_heatmap_{date}_{time_period.replace(' ', '_')}.png"
temp_file(d, time_period) == <<"btc_liquidation_heatmap", d, time_period>>

\* f"fallback_chart_{date}.png"
fallback_chart(d) == <<"fallback_chart", d>>

\* get_bitcoin_price(): a formatted price, or None; every exception is caught.
get_bitcoin_price(response) ==
    IF response = "ok" THEN "$price" ELSE None

\* price_text = f"BTC Price: {btc_price}" if btc_price else ""
price_text(price) ==
    IF price # None THEN "BTC Price" ELSE ""

\* Variant of caption: the price line is appended without testing price_text.
caption_AlwaysPriceLine(price) ==
    <<"header">> \o <<"price_line">>

\* The caption: a header line, and a price line when price_text is not empty.
caption(price) ==
    <<"header">> \o (IF price_text(price) # "" THEN <<"price_line">> ELSE <<>>)

\* Destination of a request: the channel for the scheduled run, else the chat.
CHANNEL_ID == "CHANNEL_ID"
Dest(t) == IF t = Main THEN CHANNEL_ID ELSE "message.chat.id"

Photo(t, price) == [type |-> "photo", to |-> Dest(t), body |-> caption(price)]
Text(t, body) == [type |-> "text", to |-> Dest(t), body |-> <<body>>]

----------------------------------------------------------------------------
Init ==
    /\ main_pc = "m303"
    /\ polling = FALSE
    /\ due = FALSE
    /\ day = 0
    /\ fs = {}
    /\ pc = [t \in Threads |-> IF t = Main THEN "c58" ELSE "idle"]
    /\ arg = [t \in Threads |-> None]
    /\ driver = [t \in Threads |-> Unset]
    /\ inner_e = [t \in Threads |-> FALSE]
    /\ heatmap_file = [t \in Threads |-> Unset]
    /\ btc_price = [t \in Threads |-> Unset]
    /\ out = [t \in Threads |-> <<>>]
    /\ exc = [t \in Threads |-> None]
    /\ escaped = [t \in Threads |-> FALSE]

----------------------------------------------------------------------------
\* capture_coinglass_heatmap(), run by thread t

\* line 58: driver = setup_webdriver()
SetupWebdriver(t) ==
    /\ pc[t] = "c58"
    /\ \/ /\ driver' = [driver EXCEPT ![t] = "running"]
          /\ pc' = [pc EXCEPT ![t] = "c61"]
       \/ /\ pc' = [pc EXCEPT ![t] = "c200"]
          /\ UNCHANGED driver
    /\ UNCHANGED <<main_pc, polling, due, day, fs, arg, inner_e,
                   heatmap_file, btc_price, out, exc, escaped>>

\* lines 61-86: driver.get(...) and the style-injection script
Navigate(t) ==
    /\ pc[t] = "c61"
    /\ \/ pc' = [pc EXCEPT ![t] = "c88"]
       \/ pc' = [pc EXCEPT ![t] = "c200"]
    /\ UNCHANGED <<main_pc, polling, due, day, fs, arg, driver, inner_e,
                   heatmap_file, btc_price, out, exc, escaped>>

\* lines 88-175: dropdown, chart container, CDP screenshot, decode, save
MainCapture(t) ==
    /\ pc[t] = "c88"
    /\ \/ /\ fs' = fs \cup {temp_file(day, "1 month")}
          /\ heatmap_file' = [heatmap_file EXCEPT ![t] = temp_file(day, "1 month")]
          /\ pc' = [pc EXCEPT ![t] = "c205"]
          /\ UNCHANGED inner_e
       \/ /\ inner_e' = [inner_e EXCEPT ![t] = TRUE]
          /\ pc' = [pc EXCEPT ![t] = "c182"]
          /\ UNCHANGED <<fs, heatmap_file>>
    /\ UNCHANGED <<main_pc, polling, due, day, arg, driver,
                   btc_price, out, exc, escaped>>

\* lines 177-182: inner except, full-page fallback screenshot.  The file
\* fallback_screenshot_<date>.png is written for diagnosis only: no code reads,
\* returns or removes it, so it is not kept in fs.
FallbackScreenshot(t) ==
    /\ pc[t] = "c182"
    /\ \/ pc' = [pc EXCEPT ![t] = "c185"]
       \/ pc' = [pc EXCEPT ![t] = "c200"]
    /\ UNCHANGED <<main_pc, polling, due, day, fs, arg, driver, inner_e,
                   heatmap_file, btc_price, out, exc, escaped>>

\* lines 185-198: capture the first chart-like element, else raise inner_e
FallbackChart(t) ==
    /\ pc[t] = "c185"
    /\ \/ /\ fs' = fs \cup {fallback_chart(day)}
          /\ heatmap_file' = [heatmap_file EXCEPT ![t] = fallback_chart(day)]
          /\ pc' = [pc EXCEPT ![t] = "c205"]
       \/ /\ pc' = [pc EXCEPT ![t] = "c200"]
          /\ UNCHANGED <<fs, heatmap_file>>
    /\ UNCHANGED <<main_pc, polling, due, day, arg, driver, inner_e,
                   btc_price, out, exc, escaped>>

\* lines 200-204: outer except: quit the driver if it exists, return None
CaptureExcept(t) ==
    /\ pc[t] = "c200"
    /\ driver' = [driver EXCEPT ![t] = IF @ = Unset THEN Unset ELSE "quit"]
    /\ heatmap_file' = [heatmap_file EXCEPT ![t] = None]
    /\ pc' = [pc EXCEPT ![t] = "c205"]
    /\ UNCHANGED <<main_pc, polling, due, day, fs, arg, inner_e,
                   btc_price, out, exc, escaped>>

\* Variant of CaptureFinally: the finally clause does not quit the driver.
CaptureFinally_NoQuit(t) ==
    /\ pc[t] = "c205"
    /\ pc' = [pc EXCEPT ![t] = "check"]
    /\ UNCHANGED <<main_pc, polling, due, day, fs, arg, driver, inner_e,
                   heatmap_file, btc_price, out, exc, escaped>>

\* lines 205-207: finally: quit the driver if it exists; control returns
CaptureFinally(t) ==
    /\ pc[t] = "c205"
    /\ driver' = [driver EXCEPT ![t] = IF @ = Unset THEN Unset ELSE "quit"]
    /\ pc' = [pc EXCEPT ![t] = "check"]
    /\ UNCHANGED <<main_pc, polling, due, day, fs, arg, inner_e,
                   heatmap_file, btc_price, out, exc, escaped>>

----------------------------------------------------------------------------
\* send_Monthly_heatmap(), run by the main thread

\* Variant of SchedCaptureFailed: the 'return' after the failure text is
\* missing, so control falls through to the delivery of the (absent) file.
SchedCaptureFailed_NoReturn ==
    /\ pc[Main] = "check"
    /\ heatmap_file[Main] = None
    /\ \/ /\ out' = [out EXCEPT ![Main] = Append(@, Text(Main, "failed_to_capture"))]
          /\ pc' = [pc EXCEPT ![Main] = "open"]
          /\ UNCHANGED exc
       \/ /\ exc' = [exc EXCEPT ![Main] = "TransportError"]
          /\ pc' = [pc EXCEPT ![Main] = "except"]
          /\ UNCHANGED out
    /\ UNCHANGED <<main_pc, polling, due, day, fs, arg, driver, inner_e,
                   heatmap_file, btc_price, escaped>>

\* lines 236-239: capture returned None: send the failure text and return
SchedCaptureFailed ==
    /\ pc[Main] = "check"
    /\ heatmap_file[Main] = None
    /\ \/ /\ out' = [out EXCEPT ![Main] = Append(@, Text(Main, "failed_to_capture"))]
          /\ pc' = [pc EXCEPT ![Main] = "done"]
          /\ UNCHANGED exc
       \/ /\ exc' = [exc EXCEPT ![Main] = "TransportError"]
          /\ pc' = [pc EXCEPT ![Main] = "except"]
          /\ UNCHANGED out
    /\ UNCHANGED <<main_pc, polling, due, day, fs, arg, driver, inner_e,
                   heatmap_file, btc_price, escaped>>

\* lines 242-243: btc_price = get_bitcoin_price()
SchedGetPrice ==
    /\ pc[Main] = "check"
    /\ heatmap_file[Main] # None
    /\ \E response \in Responses :
          btc_price' = [btc_price EXCEPT ![Main] = get_bitcoin_price(response)]
    /\ pc' = [pc EXCEPT ![Main] = "open"]
    /\ UNCHANGED <<main_pc, polling, due, day, fs, arg, driver, inner_e,
                   heatmap_file, out, exc, escaped>>

\* line 246: open(heatmap_file, 'rb'); FileNotFoundError if it is gone
SchedOpen ==
    /\ pc[Main] = "open"
    /\ IF heatmap_file[Main] \in fs
          THEN /\ pc' = [pc EXCEPT ![Main] = "send"]
               /\ UNCHANGED exc
          ELSE /\ exc' = [exc EXCEPT ![Main] = "FileNotFoundError"]
               /\ pc' = [pc EXCEPT ![Main] = "except"]
    /\ UNCHANGED <<main_pc, polling, due, day, fs, arg, driver, inner_e,
                   heatmap_file, btc_price, out, escaped>>

\* lines 247-251: build the caption and bot.send_photo(CHANNEL_ID, ...)
SchedSendPhoto ==
    /\ pc[Main] = "send"
    /\ \/ /\ out' = [out EXCEPT ![Main] = Append(@, Photo(Main, btc_price[Main]))]
          /\ pc' = [pc EXCEPT ![Main] = "remove"]
          /\ UNCHANGED exc
       \/ /\ exc' = [exc EXCEPT ![Main] = "TransportError"]
          /\ pc' = [pc EXCEPT ![Main] = "except"]
          /\ UNCHANGED out
    /\ UNCHANGED <<main_pc, polling, due, day, fs, arg, driver, inner_e,
                   heatmap_file, btc_price, escaped>>

\* lines 254-255: os.remove(heatmap_file); FileNotFoundError if it is gone
SchedRemove ==
    /\ pc[Main] = "remove"
    /\ IF heatmap_file[Main] \in fs
          THEN /\ fs' = fs \ {heatmap_file[Main]}
               /\ pc' = [pc EXCEPT ![Main] = "done"]
               /\ UNCHANGED exc
          ELSE /\ exc' = [exc EXCEPT ![Main] = "FileNotFoundError"]
               /\ pc' = [pc EXCEPT ![Main] = "except"]
               /\ UNCHANGED fs
    /\ UNCHANGED <<main_pc, polling, due, day, arg, driver, inner_e,
                   heatmap_file, btc_price, out, escaped>>

\* lines 257-262: except: try to send the error notice, swallow a failure
SchedExcept ==
    /\ pc[Main] = "except"
    /\ \/ out' = [out EXCEPT ![Main] = Append(@, Text(Main, "error_notice"))]
       \/ UNCHANGED out
    /\ pc' = [pc EXCEPT ![Main] = "done"]
    /\ UNCHANGED <<main_pc, polling, due, day, fs, arg, driver, inner_e,
                   heatmap_file, btc_price, exc, escaped>>

----------------------------------------------------------------------------
\* handle_manual_heatmap(message), run by a telebot worker thread

\* lines 267-268: the polling thread dispatches a /heatmap command
ReceiveHeatmap(t) ==
    /\ polling
    /\ pc[t] = "idle"
    /\ \E a \in Args : arg' = [arg EXCEPT ![t] = a]
    /\ pc' = [pc EXCEPT ![t] = "ack"]
    /\ UNCHANGED <<main_pc, polling, due, day, fs, driver, inner_e,
                   heatmap_file, btc_price, out, exc, escaped>>

\* line 270: bot.reply_to(message, "Fetching ..."), outside the try
ManualAck(t) ==
    /\ pc[t] = "ack"
    /\ \/ /\ out' = [out EXCEPT ![t] = Append(@, Text(t, "fetching"))]
          /\ pc' = [pc EXCEPT ![t] = "c58"]
          /\ UNCHANGED <<exc, escaped>>
       \/ /\ exc' = [exc EXCEPT ![t] = "TransportError"]
          /\ escaped' = [escaped EXCEPT ![t] = TRUE]
          /\ pc' = [pc EXCEPT ![t] = "done"]
          /\ UNCHANGED out
    /\ UNCHANGED <<main_pc, polling, due, day, fs, arg, driver, inner_e,
                   heatmap_file, btc_price>>

\* lines 274-276: capture returned None: reply with the apology and return
ManualCaptureFailed(t) ==
    /\ pc[t] = "check"
    /\ heatmap_file[t] = None
    /\ \/ /\ out' = [out EXCEPT ![t] = Append(@, Text(t, "could_not_fetch"))]
          /\ pc' = [pc EXCEPT ![t] = "done"]
          /\ UNCHANGED exc
       \/ /\ exc' = [exc EXCEPT ![t] = "TransportError"]
          /\ pc' = [pc EXCEPT ![t] = "except"]
          /\ UNCHANGED out
    /\ UNCHANGED <<main_pc, polling, due, day, fs, arg, driver, inner_e,
                   heatmap_file, btc_price, escaped>>

\* lines 279-280: btc_price = get_bitcoin_price()
ManualGetPrice(t) ==
    /\ pc[t] = "check"
    /\ heatmap_file[t] # None
    /\ \E response \in Responses :
          btc_price' = [btc_price EXCEPT ![t] = get_bitcoin_price(response)]
    /\ pc' = [pc EXCEPT ![t] = "open"]
    /\ UNCHANGED <<main_pc, polling, due, day, fs, arg, driver, inner_e,
                   heatmap_file, out, exc, escaped>>

\* line 282: open(heatmap_file, 'rb'); FileNotFoundError if it is gone
ManualOpen(t) ==
    /\ pc[t] = "open"
    /\ IF heatmap_file[t] \in fs
          THEN /\ pc' = [pc EXCEPT ![t] = "send"]
               /\ UNCHANGED exc
          ELSE /\ exc' = [exc EXCEPT ![t] = "FileNotFoundError"]
               /\ pc' = [pc EXCEPT ![t] = "except"]
    /\ UNCHANGED <<main_pc, polling, due, day, fs, arg, driver, inner_e,
                   heatmap_file, btc_price, out, escaped>>

\* lines 283-287: build the caption and bot.send_photo(message.chat.id, ...)
ManualSendPhoto(t) ==
    /\ pc[t] = "send"
    /\ \/ /\ out' = [out EXCEPT ![t] = Append(@, Photo(t, btc_price[t]))]
          /\ pc' = [pc EXCEPT ![t] = "remove"]
          /\ UNCHANGED exc
       \/ /\ exc' = [exc EXCEPT ![t] = "TransportError"]
          /\ pc' = [pc EXCEPT ![t] = "except"]
          /\ UNCHANGED out
    /\ UNCHANGED <<main_pc, polling, due, day, fs, arg, driver, inner_e,
                   heatmap_file, btc_price, escaped>>

\* line 289: os.remove(heatmap_file); FileNotFoundError if it is gone
ManualRemove(t) ==
    /\ pc[t] = "remove"
    /\ IF heatmap_file[t] \in fs
          THEN /\ fs' = fs \ {heatmap_file[t]}
               /\ pc' = [pc EXCEPT ![t] = "done"]
               /\ UNCHANGED exc
          ELSE /\ exc' = [exc EXCEPT ![t] = "FileNotFoundError"]
               /\ pc' = [pc EXCEPT ![t] = "except"]
               /\ UNCHANGED fs
    /\ UNCHANGED <<main_pc, polling, due, day, arg, driver, inner_e,
                   heatmap_file, btc_price, out, escaped>>

\* lines 291-293: except: bot.reply_to(...) with no guard around it
ManualExcept(t) ==
    /\ pc[t] = "except"
    /\ \/ /\ out' = [out EXCEPT ![t] = Append(@, Text(t, "error_notice"))]
          /\ UNCHANGED <<exc, escaped>>
       \/ /\ exc' = [exc EXCEPT ![t] = "TransportError"]
          /\ escaped' = [escaped EXCEPT ![t] = TRUE]
          /\ UNCHANGED out
    /\ pc' = [pc EXCEPT ![t] = "done"]
    /\ UNCHANGED <<main_pc, polling, due, day, fs, arg, driver, inner_e,
                   heatmap_file, btc_price>>

----------------------------------------------------------------------------
\* main() and the end of a request

\* The handler's frame is gone: its locals are dropped.
Return(t) ==
    /\ arg' = [arg EXCEPT ![t] = None]
    /\ driver' = [driver EXCEPT ![t] = Unset]
    /\ inner_e' = [inner_e EXCEPT ![t] = FALSE]
    /\ heatmap_file' = [heatmap_file EXCEPT ![t] = Unset]
    /\ btc_price' = [btc_price EXCEPT ![t] = Unset]
    /\ out' = [out EXCEPT ![t] = <<>>]
    /\ exc' = [exc EXCEPT ![t] = None]
    /\ escaped' = [escaped EXCEPT ![t] = FALSE]
    /\ pc' = [pc EXCEPT ![t] = "idle"]

\* line 303 / line 311: send_Monthly_heatmap() returns to main()
SchedReturn ==
    /\ pc[Main] = "done"
    /\ Return(Main)
    /\ main_pc' = IF main_pc = "m303" THEN "m307" ELSE main_pc
    /\ UNCHANGED <<polling, due, day, fs>>

\* the worker thread finishes the handler and is free again
ManualReturn(t) ==
    /\ pc[t] = "done"
    /\ Return(t)
    /\ UNCHANGED <<main_pc, polling, due, day, fs>>

\* line 307: threading.Thread(target=bot.polling, ...).start()
StartPolling ==
    /\ main_pc = "m307"
    /\ polling' = TRUE
    /\ main_pc' = "m310"
    /\ UNCHANGED <<due, day, fs, pc, arg, driver, inner_e,
                   heatmap_file, btc_price, out, exc, escaped>>

\* lines 310-312: schedule.run_pending() runs the due job on the main thread
RunPending ==
    /\ main_pc = "m310"
    /\ due
    /\ pc[Main] = "idle"
    /\ due' = FALSE
    /\ pc' = [pc EXCEPT ![Main] = "c58"]
    /\ UNCHANGED <<main_pc, polling, day, fs, arg, driver, inner_e,
                   heatmap_file, btc_price, out, exc, escaped>>

\* A day of wall-clock time passes: datetime.now() yields the next date and
\* the job scheduled every().day.at("08:00") is due for run_pending().
Tick ==
    /\ day < MaxDay
    /\ day' = day + 1
    /\ due' = TRUE
    /\ UNCHANGED <<main_pc, polling, fs, pc, arg, driver, inner_e,
                   heatmap_file, btc_price, out, exc, escaped>>

----------------------------------------------------------------------------
Capture(t) ==
    \/ SetupWebdriver(t)
    \/ Navigate(t)
    \/ MainCapture(t)
    \/ FallbackScreenshot(t)
    \/ FallbackChart(t)
    \/ CaptureExcept(t)
    \/ CaptureFinally(t)

Next ==
    \/ \E t \in Threads : Capture(t)
    \/ SchedCaptureFailed
    \/ SchedGetPrice
    \/ SchedOpen
    \/ SchedSendPhoto
    \/ SchedRemove
    \/ SchedExcept
    \/ SchedReturn
    \/ StartPolling
    \/ RunPending
    \/ Tick
    \/ \E t \in Workers : ReceiveHeatmap(t)
    \/ \E t \in Workers : ManualAck(t)
    \/ \E t \in Workers : ManualCaptureFailed(t)
    \/ \E t \in Workers : ManualGetPrice(t)
    \/ \E t \in Workers : ManualOpen(t)
    \/ \E t \in Workers : ManualSendPhoto(t)
    \/ \E t \in Workers : ManualRemove(t)
    \/ \E t \in Workers : ManualExcept(t)
    \/ \E t \in Workers : ManualReturn(t)

Spec == Init /\ [][Next]_vars

----------------------------------------------------------------------------
\* Vocabulary of the properties

CaptureLabels == {"c58", "c61", "c88", "c182", "c185", "c200", "c205"}

\* The handler of thread t has finished (its locals are still in view).
Finished(t) == pc[t] = "done"

\* capture_coinglass_heatmap has returned to the handler of thread t.
Returned(t) == heatmap_file[t] # Unset /\ pc[t] \notin CaptureLabels

\* The capture handed an image file to the handler / signalled failure.
Acquired(t) == Returned(t) /\ heatmap_file[t] # None
AcquisitionFailed(t) == Returned(t) /\ heatmap_file[t] = None

Indices(t) == 1..Len(out[t])
Texts(t) == {i \in Indices(t) : out[t][i].type = "text"}
Photos(t) == {i \in Indices(t) : out[t][i].type = "photo"}
\* Texts that report a failure (everything but the "Fetching..." reply).
Notices(t) == {i \in Texts(t) : out[t][i].body # <<"fetching">>}
HasPriceLine(m) == \E k \in 1..Len(m.body) : m.body[k] = "price_line"

\* The timeframes the specification allows for /heatmap.
AllowList == {"24 hour", "12 hour", "4 hour", "1 hour", "1 week", "1 month", "3 month"}

----------------------------------------------------------------------------
\* C1: when a request has finished and the capture had handed it an image
\* file, that file no longer exists, whatever the exit path.
C1_TempFileRemoved ==
    \A t \in Threads :
        (Finished(t) /\ Acquired(t)) => heatmap_file[t] \notin fs

\* C2 (as stated): a finished request whose acquisition failed, and none of
\* whose sends raised, has delivered exactly one text and no photo, counting
\* every text of the request.
C2_ExactlyOneText ==
    \A t \in Threads :
        (Finished(t) /\ AcquisitionFailed(t) /\ exc[t] = None)
            => Cardinality(Texts(t)) = 1 /\ Photos(t) = {}

\* C2 (amended): a finished request whose acquisition failed has delivered no
\* photo and at most one failure notice, exactly one when no send raised, all
\* to its own destination; the scheduled request delivers no other text, the
\* interactive one exactly one more, the "Fetching..." reply sent first.
C2_OneFailureNotice ==
    \A t \in Threads :
        (Finished(t) /\ AcquisitionFailed(t))
            => /\ Photos(t) = {}
               /\ Cardinality(Notices(t)) <= 1
               /\ exc[t] = None => Cardinality(Notices(t)) = 1
               /\ \A i \in Indices(t) : out[t][i].to = Dest(t)
               /\ t = Main => Texts(t) = Notices(t)
               /\ t \in Workers => /\ Texts(t) = Notices(t) \cup {1}
                                   /\ out[t][1].body = <<"fetching">>

\* An interactive request whose acquisition failed has delivered the
\* "Fetching..." reply and then the failure notice: two texts.
C2_Witness ==
    \E t \in Workers :
        /\ Finished(t) /\ AcquisitionFailed(t) /\ exc[t] = None
        /\ Cardinality(Texts(t)) = 2
        /\ Cardinality(Notices(t)) = 1

\* C3: a /heatmap command whose timeframe is not in the allow-list never
\* reaches capture_coinglass_heatmap.
C3_InvalidTimeframeRejected ==
    \A t \in Workers :
        (arg[t] \notin AllowList \cup {None, ""})
            => pc[t] \notin CaptureLabels /\ heatmap_file[t] = Unset

\* C4: when the main capture sequence failed, capture_coinglass_heatmap
\* returns None to its caller, never an image file.
C4_FailureReturnsNone ==
    \A t \in Threads :
        (Returned(t) /\ inner_e[t]) => heatmap_file[t] = None

\* C5: once capture_coinglass_heatmap has returned to its caller, no browser
\* session it created is still running.
C5_SessionTerminated ==
    \A t \in Threads :
        Returned(t) => driver[t] # "running"

\* A capture that created a session has returned an image, the session quit.
C5_Witness ==
    \E t \in Threads :
        pc[t] = "check" /\ Acquired(t) /\ driver[t] = "quit"

\* C6: a request in which an error occurred after acquisition began never
\* lets an exception out of its handler, also when the error notice fails.
C6_NothingPropagates ==
    \A t \in Threads :
        (Finished(t) /\ Returned(t)) => ~escaped[t]

\* C7: while a scheduled delivery is in progress on the main thread, an idle
\* handler thread can receive a /heatmap command.
C7_NeverBlocks ==
    \A w \in Workers :
        (pc[Main] \notin {"idle", "done"} /\ pc[w] = "idle")
            => ENABLED ReceiveHeatmap(w)

C9_NoSharedFile ==
    \A t \in Threads : exc[t] # "FileNotFoundError"

\* C10: no request delivers a photo and afterwards an error notice.
C10_NeverBoth ==
    \A t \in Threads :
        \A i \in Photos(t) : \A j \in Texts(t) : j < i

====
